---- MODULE Spec2Model ----
(***************************************************************************)
(* Model of the FIFO lot-accounting and tax-planning engine of             *)
(* src/app.py (calculate_fifo_cost_basis .. plan_full_extraction) and of   *)
(* the handler add_lot that maintains the stored ledger.                   *)
(*                                                                         *)
(* Spec        the engine calls and the two planners over a stored ledger. *)
(* SpecTax     the two tax rules, called with gains, limits and buffers.   *)
(* SpecLedger  add_lot requests on an asset created with no lots.          *)
(*                                                                         *)
(* Representation of numbers.  The code computes in Python floats; every   *)
(* value that occurs for whole-unit ledgers with whole-euro prices is a    *)
(* dyadic rational of small magnitude, which a float holds exactly.        *)
(*   - A quantity is a pair (quantity, den): the value quantity / den.     *)
(*     Whole quantities have den = 1; the probes of the binary search have *)
(*     den = 2^k.                                                          *)
(*   - A cost or gain computed for a quantity with denominator den is the  *)
(*     integer numerator over that same den.                               *)
(*   - Tax amounts (tax, net, cumulative_tax) are kept in hundredths of a  *)
(*     euro: TAX_RATE is the rate in percent, so tax = taxable * TAX_RATE  *)
(*     hundredths is exactly taxable * 0.10 euro.                          *)
(* A lot is a record (a Python dict); the key "remaining" is optional, so  *)
(* lots of one ledger may have different domains.                          *)
(* Python lists of dicts hold references: the heap maps addresses to lots, *)
(* and a ledger is a sequence of addresses.                                *)
(***************************************************************************)
EXTENDS Integers, Sequences, FiniteSets, TLC

\* ---------------------------------------------------------------- bounds
MaxLots == 3
MaxYears == 3

\* ------------------------------------------------------- program constants
BASE_LIMIT == 10000
BUFFER_ZONE == 1000
TAX_RATE == 10
MaxIter == 100

\* ------------------------------------------------------------ input sets
Quantities == {1, 2}
LotPrices == {300, 5800}
SalePrices == {2700, 5400}
\* ... and the sale price a request without one is given
RequestPrices == SalePrices \cup {0}
TargetGains == {2500, BASE_LIMIT}
TargetRevenues == {2500, BASE_LIMIT}
PriceIncreases == {0, 1}

\* Form fields of add_lot: a date, and the numbers typed into the quantity,
\* price and amount fields (0 is what a missing field defaults to)
LotDates == {1, 2}
FormQuantities == {0, 1, 2}
FormPrices == {0, 300}
FormAmounts == {0, 5800}

\* Inputs of the tax rules: gains around the limit, the buffer and the gain
\* whose tax reaches BUFFER_ZONE (whole euros), yearly limits and buffers
TaxGains == {-400, 0, 9000, 9999, 10000, 10001, 10100, 10200, 10500, 10600,
             11000, 11001, 12000, 19999, 20000, 20001, 25000}
YearlyLimits == {0, 5000, BASE_LIMIT}
Buffers == {0, 100, 500, BUFFER_ZONE, 2000}

Min(a, b) == IF a <= b THEN a ELSE b

RECURSIVE Pow(_, _)
Pow(b, e) == IF e = 0 THEN 1 ELSE b * Pow(b, e - 1)

\* A value that is a number or None (the failure signal of the resolver and
\* of calculate_gain): the number x is <<x>>, None is the empty tuple.
None == <<>>
Num(x) == <<x>>
IsNone(v) == v = None
Val(v) == v[1]

\* lot.get('remaining', lot['quantity'])
Available(lot) == IF "remaining" \in DOMAIN lot THEN lot.remaining ELSE lot.quantity

\* lot.get('remaining', 0), as the planners read their working copy
AvailableOrZero(lot) == IF "remaining" \in DOMAIN lot THEN lot.remaining ELSE 0

\* ----------------------------------------------------------- FIFO resolver
\* The for-loop of calculate_fifo_cost_basis from lot i on; remaining, cost
\* and the quantities of lots_used are numerators over den.
RECURSIVE FifoLoop(_, _, _, _, _, _)
FifoLoop(lots, den, i, remaining, cost, lots_used) ==
    IF i > Len(lots) \/ remaining <= 0
    THEN [remaining |-> remaining, cost |-> cost, lots_used |-> lots_used]
    ELSE LET lot == lots[i]
             available == Available(lot) * den
             use == Min(remaining, available)
         IN IF available <= 0
            THEN FifoLoop(lots, den, i + 1, remaining, cost, lots_used)
            ELSE FifoLoop(lots, den, i + 1, remaining - use,
                          cost + use * lot.price,
                          Append(lots_used, [date |-> lot.date,
                                             quantity |-> use,
                                             price |-> lot.price]))

\* A resolver that walks the ledger newest lot first (LIFO)
RECURSIVE LifoLoop(_, _, _, _, _, _)
LifoLoop(lots, den, i, remaining, cost, lots_used) ==
    IF i < 1 \/ remaining <= 0
    THEN [remaining |-> remaining, cost |-> cost, lots_used |-> lots_used]
    ELSE LET lot == lots[i]
             available == Available(lot) * den
             use == Min(remaining, available)
         IN IF available <= 0
            THEN LifoLoop(lots, den, i - 1, remaining, cost, lots_used)
            ELSE LifoLoop(lots, den, i - 1, remaining - use,
                          cost + use * lot.price,
                          Append(lots_used, [date |-> lot.date,
                                             quantity |-> use,
                                             price |-> lot.price]))

\* A resolver that consumes the newest lots first
calculate_lifo_cost_basis(lots, quantity, den) ==
    LET r == LifoLoop(lots, den, Len(lots), quantity, 0, <<>>)
    IN IF r.remaining > 0
       THEN [cost |-> None, lots_used |-> <<>>]
       ELSE [cost |-> Num(r.cost), lots_used |-> r.lots_used]

\* A resolver without the final "if remaining > 0" check
calculate_fifo_cost_basis_unchecked(lots, quantity, den) ==
    LET r == FifoLoop(lots, den, 1, quantity, 0, <<>>)
    IN [cost |-> Num(r.cost), lots_used |-> r.lots_used]

\* calculate_fifo_cost_basis(lots, quantity / den): (cost, lots_used), or
\* (None, []) when the ledger does not hold the quantity
calculate_fifo_cost_basis(lots, quantity, den) ==
    LET r == FifoLoop(lots, den, 1, quantity, 0, <<>>)
    IN IF r.remaining > 0
       THEN [cost |-> None, lots_used |-> <<>>]
       ELSE [cost |-> Num(r.cost), lots_used |-> r.lots_used]

RECURSIVE SumAvailable(_, _)
SumAvailable(lots, i) ==
    IF i > Len(lots) THEN 0 ELSE Available(lots[i]) + SumAvailable(lots, i + 1)

get_total_available(lots) == SumAvailable(lots, 1)

\* A gain with the operands of the subtraction exchanged
calculate_gain_swapped(lots, quantity, den, sale_price) ==
    LET cost == calculate_fifo_cost_basis(lots, quantity, den).cost
    IN IF IsNone(cost) THEN None ELSE Num(Val(cost) - quantity * sale_price)

\* calculate_gain(lots, quantity / den, sale_price): numerator over den
calculate_gain(lots, quantity, den, sale_price) ==
    LET cost == calculate_fifo_cost_basis(lots, quantity, den).cost
    IN IF IsNone(cost) THEN None ELSE Num(quantity * sale_price - Val(cost))

\* ------------------------------------------------------ quantity optimizer
\* The binary search loop of max_sellable_for_gain, from the loop state s on.
\* s.low, s.high and s.best_n are numerators over s.den; every iteration
\* halves the grid (mid = (low + high) / 2 is the numerator low + high over
\* 2 * den).  best_gain is the value s.best_gain / s.best_den.
RECURSIVE BinarySearch(_, _, _, _)
BinarySearch(lots, sale_price, target_gain, s) ==
    IF s.iter >= MaxIter \/ 2 * (s.high - s.low) < s.den
    THEN s
    ELSE LET mid == s.low + s.high
             den2 == 2 * s.den
             gain == calculate_gain(lots, mid, den2, sale_price)
             lowered == [s EXCEPT !.iter = @ + 1, !.den = den2, !.low = 2 * @,
                                  !.high = mid, !.best_n = 2 * @]
             raised == [iter |-> s.iter + 1, den |-> den2, low |-> mid,
                        high |-> 2 * s.high, best_n |-> mid,
                        best_gain |-> IF IsNone(gain) THEN 0 ELSE Val(gain),
                        best_den |-> den2]
         IN IF IsNone(gain)
            THEN BinarySearch(lots, sale_price, target_gain, lowered)
            ELSE IF Val(gain) <= target_gain * den2
            THEN BinarySearch(lots, sale_price, target_gain, raised)
            ELSE BinarySearch(lots, sale_price, target_gain, lowered)

\* max_sellable_for_gain(lots, sale_price, target_gain): (units, gain); the
\* returned gain is the value gain / den.
max_sellable_for_gain(lots, sale_price, target_gain) ==
    LET total_available == get_total_available(lots)
        gain_all == calculate_gain(lots, total_available, 1, sale_price)
        s == BinarySearch(lots, sale_price, target_gain,
                          [iter |-> 0, den |-> 1, low |-> 0,
                           high |-> total_available, best_n |-> 0,
                           best_gain |-> 0, best_den |-> 1])
        best_n == s.best_n \div s.den
    IN IF total_available = 0
       THEN [units |-> 0, gain |-> 0, den |-> 1]
       ELSE IF ~IsNone(gain_all) /\ Val(gain_all) <= target_gain
       THEN [units |-> total_available, gain |-> Val(gain_all), den |-> 1]
       ELSE IF best_n > 0
       THEN [units |-> best_n,
             gain |-> Val(calculate_gain(lots, best_n, 1, sale_price)),
             den |-> 1]
       ELSE [units |-> best_n, gain |-> s.best_gain, den |-> s.best_den]

\* ---------------------------------------------------------------- tax rule
\* A tax rule that ignores its yearly_limit argument
calculate_tax_base_limit(gain, yearly_limit) ==
    IF gain <= BASE_LIMIT
    THEN [taxable |-> 0, tax |-> 0]
    ELSE [taxable |-> gain - BASE_LIMIT,
          tax |-> (gain - BASE_LIMIT) * TAX_RATE]

\* calculate_tax(gain, yearly_limit): (taxable, tax), tax in hundredths
calculate_tax(gain, yearly_limit) ==
    IF gain <= yearly_limit
    THEN [taxable |-> 0, tax |-> 0]
    ELSE [taxable |-> gain - yearly_limit,
          tax |-> (gain - yearly_limit) * TAX_RATE]

Max(a, b) == IF a >= b THEN a ELSE b

\* A buffered rule that taxes only the part of the excess beyond the buffer
calculate_tax_with_buffer_marginal(gain, buffer_available) ==
    LET excess == gain - BASE_LIMIT
    IN IF gain <= BASE_LIMIT
       THEN [taxable |-> 0, tax |-> 0, buffer_used |-> 0,
             buffer_remaining |-> buffer_available]
       ELSE IF excess <= buffer_available
       THEN [taxable |-> 0, tax |-> 0, buffer_used |-> excess,
             buffer_remaining |-> buffer_available - excess]
       ELSE [taxable |-> excess - buffer_available,
             tax |-> (excess - buffer_available) * TAX_RATE,
             buffer_used |-> buffer_available, buffer_remaining |-> 0]

\* calculate_tax_with_buffer(gain, buffer_available):
\* (taxable, tax, buffer_used, buffer_remaining), tax in hundredths
calculate_tax_with_buffer(gain, buffer_available) ==
    LET excess == gain - BASE_LIMIT
        tax == excess * TAX_RATE
        buffer_remaining == IF tax >= BUFFER_ZONE * 100 THEN 0
                            ELSE BUFFER_ZONE - excess
    IN IF gain <= BASE_LIMIT
       THEN [taxable |-> 0, tax |-> 0, buffer_used |-> 0,
             buffer_remaining |-> buffer_available]
       ELSE IF excess <= buffer_available
       THEN [taxable |-> 0, tax |-> 0, buffer_used |-> excess,
             buffer_remaining |-> buffer_available - excess]
       ELSE [taxable |-> excess, tax |-> tax, buffer_used |-> excess,
             buffer_remaining |-> Max(0, buffer_remaining)]

\* -------------------------------------------------------- revenue targeter
\* shares_for_target_revenue: (shares, actual_revenue, gain, cost_basis)
shares_for_target_revenue(lots, sale_price, target_revenue) ==
    LET total_available == get_total_available(lots)
        \* int(min(target_revenue / sale_price, total_available)), for
        \* non-negative whole operands; the division raises when sale_price
        \* is 0
        shares_needed == Min(target_revenue \div sale_price, total_available)
        cost == calculate_fifo_cost_basis(lots, shares_needed, 1).cost
    IN IF sale_price = 0
       THEN [raised |-> "ZeroDivisionError"]
       ELSE IF shares_needed <= 0 \/ IsNone(cost)
       THEN [shares |-> 0, actual_revenue |-> 0, gain |-> 0, cost_basis |-> 0]
       ELSE [shares |-> shares_needed,
             actual_revenue |-> shares_needed * sale_price,
             gain |-> shares_needed * sale_price - Val(cost),
             cost_basis |-> Val(cost)]

\* ------------------------------------------------------------------ state
VARIABLES
    heap,            \* address -> lot: every lot dict alive in the process
    lots,            \* the caller's ledger: a list of addresses
    pc,              \* "idle"; "loop" inside the year loop of a planner;
                     \* "returned" once the call has handed back its result
    call,            \* the engine call being made: its name and arguments
    ret,             \* what the last call returned, as a record of its components
    remaining_lots,  \* planner local: the working ledger (list of addresses)
    plan,            \* planner local: the entries appended so far
    year,            \* planner local: the loop variable of range(years)
    total_sold,      \* planner local
    total_revenue,   \* planner local
    total_tax        \* planner local, in hundredths

vars == <<heap, lots, pc, call, ret, remaining_lots, plan, year,
          total_sold, total_revenue, total_tax>>

locals == <<remaining_lots, plan, year, total_sold, total_revenue, total_tax>>

\* ret before any call has returned and while a planner runs
NoReturn == [returned |-> FALSE]

\* The lots a list of addresses refers to
Deref(h, refs) == [i \in 1..Len(refs) |-> h[refs[i]]]

\* The caller's ledger as the caller sees it
Ledger == Deref(heap, lots)

\* ------------------------------------------------------------ input ledgers
\* A lot of quantity q bought at price p on date d:
\*   "stored"  as add_lot stores it, "remaining" present and equal to q;
\*   "legacy"  a record without the optional key "remaining";
\*   "drawn"   one unit already consumed by an earlier disposal.
MkLot(d, q, p, kind) ==
    IF kind = "legacy" THEN [date |-> d, quantity |-> q, price |-> p]
    ELSE [date |-> d, quantity |-> q, price |-> p,
          remaining |-> IF kind = "drawn" THEN q - 1 ELSE q]

\* Ledgers of at most MaxLots lots in ascending date order, of which at most
\* one is not in the "stored" form
Ledgers ==
    UNION {UNION {{[i \in 1..n |->
                      MkLot(i, b[i][1], b[i][2],
                            IF i \in odd THEN k[i] ELSE "stored")] :
                     k \in [odd -> {"legacy", "drawn"}]} :
                  b \in [1..n -> Quantities \X LotPrices],
                  odd \in {o \in SUBSET (1..n) : Cardinality(o) <= 1}} :
           n \in 0..MaxLots}

\* The orders in which the lots of a ledger of n lots can be passed to the
\* resolver: every permutation of the stored (oldest first) order
ListOrders(n) == Permutations(1..n)

Init ==
    /\ heap \in Ledgers
    /\ lots = [i \in 1..Len(heap) |-> i]
    /\ pc = "idle"
    /\ call = [op |-> "none"]
    /\ ret = NoReturn
    /\ remaining_lots = <<>>
    /\ plan = <<>>
    /\ year = 0
    /\ total_sold = 0
    /\ total_revenue = 0
    /\ total_tax = 0

\* ------------------------------------------------------ single-call actions
\* calculate_fifo_cost_basis(lots, quantity), the ledger passed as the list
\* order[1], order[2], ... of the caller's lots
Call_calculate_fifo_cost_basis ==
    /\ pc = "idle"
    /\ \E order \in ListOrders(Len(lots)),
          quantity \in 0..(get_total_available(Ledger) + 1) :
         LET arg == [i \in 1..Len(lots) |-> Ledger[order[i]]]
         IN /\ call' = [op |-> "calculate_fifo_cost_basis", lots |-> arg,
                        quantity |-> quantity]
            /\ ret' = calculate_fifo_cost_basis(arg, quantity, 1)
    /\ pc' = "returned"
    /\ UNCHANGED <<heap, lots, locals>>

Call_calculate_gain ==
    /\ pc = "idle"
    /\ \E quantity \in 0..(get_total_available(Ledger) + 1),
          sale_price \in RequestPrices :
         /\ call' = [op |-> "calculate_gain", lots |-> Ledger,
                     quantity |-> quantity, sale_price |-> sale_price]
         /\ ret' = [value |-> calculate_gain(Ledger, quantity, 1, sale_price)]
    /\ pc' = "returned"
    /\ UNCHANGED <<heap, lots, locals>>

Call_max_sellable_for_gain ==
    /\ pc = "idle"
    /\ \E sale_price \in RequestPrices, target_gain \in TargetGains :
         /\ call' = [op |-> "max_sellable_for_gain", lots |-> Ledger,
                     sale_price |-> sale_price, target_gain |-> target_gain]
         /\ ret' = max_sellable_for_gain(Ledger, sale_price, target_gain)
    /\ pc' = "returned"
    /\ UNCHANGED <<heap, lots, locals>>

Call_shares_for_target_revenue ==
    /\ pc = "idle"
    /\ \E sale_price \in RequestPrices, target_revenue \in TargetRevenues :
         /\ call' = [op |-> "shares_for_target_revenue", lots |-> Ledger,
                     sale_price |-> sale_price,
                     target_revenue |-> target_revenue]
         /\ ret' = shares_for_target_revenue(Ledger, sale_price, target_revenue)
    /\ pc' = "returned"
    /\ UNCHANGED <<heap, lots, locals>>

\* ------------------------------------------------------- multi-year planners
\* remaining_lots = lots: the same dicts under a second name
AliasLots(h, refs) == [heap |-> h, refs |-> refs]

\* [lot.copy() for lot in lots]: a fresh dict per lot, appended to the heap
CopyLots(h, refs) ==
    [heap |-> h \o Deref(h, refs),
     refs |-> [i \in 1..Len(refs) |-> Len(h) + i]]

\* for lot in remaining_lots: if 'remaining' not in lot: lot['remaining'] = ...
DefaultRemaining(h, refs) ==
    [a \in 1..Len(h) |->
        IF (\E i \in 1..Len(refs) : refs[i] = a) /\ "remaining" \notin DOMAIN h[a]
        THEN [date |-> h[a].date, quantity |-> h[a].quantity,
              price |-> h[a].price, remaining |-> h[a].quantity]
        ELSE h[a]]

\* The frame a planner enters its year loop with, for the ledger refs of
\* heap h: the working copy and the zeroed totals
Prologue(h, refs) ==
    LET c == CopyLots(h, refs)
    IN [heap |-> DefaultRemaining(c.heap, c.refs), refs |-> c.refs,
        plan |-> <<>>, year |-> 0, total_sold |-> 0, total_revenue |-> 0,
        total_tax |-> 0]

\* The prologue of both planners, up to the first iteration of the year loop
PlanBegin(op) ==
    /\ pc = "idle"
    /\ \E sale_price \in SalePrices, years \in 1..MaxYears,
          price_increase \in PriceIncreases :
         call' = [op |-> op, lots |-> Ledger, sale_price |-> sale_price,
                  years |-> years, price_increase |-> price_increase]
    /\ LET f == Prologue(heap, lots)
       IN /\ heap' = f.heap
          /\ remaining_lots' = f.refs
          /\ plan' = f.plan
          /\ year' = f.year
          /\ total_sold' = f.total_sold
          /\ total_revenue' = f.total_revenue
          /\ total_tax' = f.total_tax
    /\ pc' = "loop"
    /\ ret' = NoReturn
    /\ UNCHANGED lots

\* lot['remaining'] = use
AssignUse(lot, use) == [lot EXCEPT !.remaining = use]

\* lot['remaining'] += use
AddUse(lot, use) == [lot EXCEPT !.remaining = @ + use]

\* lot['remaining'] -= use
Decrement(lot, use) == [lot EXCEPT !.remaining = @ - use]

\* The disposal loop of the planners (for lot in remaining_lots: ...), from
\* index i on: decrements lot['remaining'] in place
RECURSIVE SellLoop(_, _, _, _, _)
SellLoop(h, refs, i, to_sell, cost_basis) ==
    IF i > Len(refs) \/ to_sell <= 0
    THEN [heap |-> h, cost_basis |-> cost_basis]
    ELSE LET lot == h[refs[i]]
             avail == AvailableOrZero(lot)
             use == Min(to_sell, avail)
         IN IF avail <= 0
            THEN SellLoop(h, refs, i + 1, to_sell, cost_basis)
            ELSE SellLoop([h EXCEPT ![refs[i]] = Decrement(lot, use)],
                          refs, i + 1, to_sell - use,
                          cost_basis + use * lot.price)

\* The frame of the running planner: its locals and the heap they refer to
Frame ==
    [heap |-> heap, refs |-> remaining_lots, plan |-> plan, year |-> year,
     total_sold |-> total_sold, total_revenue |-> total_revenue,
     total_tax |-> total_tax]

\* The planner goes on from frame f
Resume(f) ==
    /\ heap' = f.heap
    /\ plan' = f.plan
    /\ year' = f.year
    /\ total_sold' = f.total_sold
    /\ total_revenue' = f.total_revenue
    /\ total_tax' = f.total_tax

\* sale_price * ((1 + price_increase) ** year)
CurrentPrice(y) == call.sale_price * Pow(1 + call.price_increase, y)

\* A year without a sale whose entry restarts the cumulative totals at 0
ZeroEntryFromScratch(f, rem) ==
    [year |-> f.year + 1, price |-> CurrentPrice(f.year), limit |-> BASE_LIMIT,
     units |-> 0, revenue |-> 0, gain |-> 0, taxable |-> 0, tax |-> 0,
     net |-> 0, remaining |-> rem, cumulative_sold |-> 0,
     cumulative_revenue |-> 0, cumulative_tax |-> 0]

\* The entry of a year without a sale; rem is its 'remaining'
ZeroEntry(f, rem) ==
    [year |-> f.year + 1, price |-> CurrentPrice(f.year), limit |-> BASE_LIMIT,
     units |-> 0, revenue |-> 0, gain |-> 0, taxable |-> 0, tax |-> 0,
     net |-> 0, remaining |-> rem, cumulative_sold |-> f.total_sold,
     cumulative_revenue |-> f.total_revenue, cumulative_tax |-> f.total_tax]

\* The body of the year loop from "if units > 0:" on, in frame f.
\* optimizer_gain is the gain plan_multi_year_sales takes from the optimizer;
\* it is None in plan_full_extraction, which computes gain = revenue -
\* cost_basis.
SellYear(f, units, optimizer_gain) ==
    IF units > 0
    THEN LET s == SellLoop(f.heap, f.refs, 1, units, 0)
             revenue == units * CurrentPrice(f.year)
             gain == IF IsNone(optimizer_gain)
                     THEN revenue - s.cost_basis
                     ELSE Val(optimizer_gain)
             t == calculate_tax(gain, BASE_LIMIT)
         IN [f EXCEPT
               !.heap = s.heap,
               !.total_sold = @ + units,
               !.total_revenue = @ + revenue,
               !.total_tax = @ + t.tax,
               !.plan = Append(@,
                 [year |-> f.year + 1, price |-> CurrentPrice(f.year),
                  limit |-> BASE_LIMIT, units |-> units, revenue |-> revenue,
                  cost_basis |-> s.cost_basis, gain |-> gain,
                  taxable |-> t.taxable, tax |-> t.tax,
                  net |-> revenue * 100 - t.tax,
                  remaining |-> get_total_available(Deref(s.heap, f.refs)),
                  cumulative_sold |-> f.total_sold + units,
                  cumulative_revenue |-> f.total_revenue + revenue,
                  cumulative_tax |-> f.total_tax + t.tax])]
    ELSE [f EXCEPT
            !.plan = Append(@, ZeroEntry(f,
                        get_total_available(Deref(f.heap, f.refs))))]

\* One iteration of "for year in range(years)" of plan_multi_year_sales,
\* from frame f to the frame at the start of the next iteration
multi_year_sales_iteration(f) ==
    LET working == Deref(f.heap, f.refs)
        available == get_total_available(working)
        m == max_sellable_for_gain(working, CurrentPrice(f.year), BASE_LIMIT)
        g == IF available <= 0
             THEN [f EXCEPT !.plan = Append(@, ZeroEntry(f, 0))]
             ELSE SellYear(f, m.units, Num(m.gain))
    IN [g EXCEPT !.year = @ + 1]

\* One iteration of the year loop of plan_multi_year_sales
plan_multi_year_sales_year ==
    /\ pc = "loop"
    /\ call.op = "plan_multi_year_sales"
    /\ year < call.years
    /\ Resume(multi_year_sales_iteration(Frame))
    /\ UNCHANGED <<lots, pc, call, ret, remaining_lots>>

\* plan_multi_year_sales called with the arguments of the running call: the
\* frame at the start of its year loop
MultiYearSalesEntry ==
    Prologue(call.lots, [i \in 1..Len(call.lots) |-> i])

\* ... and its frame after k iterations of the year loop
RECURSIVE MultiYearSalesAfter(_)
MultiYearSalesAfter(k) ==
    IF k = 0 THEN MultiYearSalesEntry
    ELSE multi_year_sales_iteration(MultiYearSalesAfter(k - 1))

\* The optimizer's quantity in every year, the last one included
UnitsCappedEveryYear(working, is_last_year, available, current_price) ==
    max_sellable_for_gain(working, current_price, BASE_LIMIT).units

\* Everything available in every year, not only in the last one
UnitsAllEveryYear(working, is_last_year, available, current_price) ==
    available

\* The quantity plan_full_extraction sells in a year
FullExtractionUnits(working, is_last_year, available, current_price) ==
    IF is_last_year
    THEN available
    ELSE max_sellable_for_gain(working, current_price, BASE_LIMIT).units

\* One iteration of "for year in range(years)" of plan_full_extraction
full_extraction_iteration(f) ==
    LET working == Deref(f.heap, f.refs)
        available == get_total_available(working)
        is_last_year == (f.year = call.years - 1)
        units == FullExtractionUnits(working, is_last_year, available,
                                     CurrentPrice(f.year))
        g == IF available <= 0
             THEN [f EXCEPT !.plan = Append(@, ZeroEntry(f, 0))]
             ELSE SellYear(f, units, None)
    IN [g EXCEPT !.year = @ + 1]

\* One iteration of the year loop of plan_full_extraction
plan_full_extraction_year ==
    /\ pc = "loop"
    /\ call.op = "plan_full_extraction"
    /\ year < call.years
    /\ Resume(full_extraction_iteration(Frame))
    /\ UNCHANGED <<lots, pc, call, ret, remaining_lots>>

\* return plan: the locals and the working copy die with the frame
PlanReturn ==
    /\ pc = "loop"
    /\ year = call.years
    /\ ret' = [plan |-> plan]
    /\ pc' = "returned"
    /\ heap' = SubSeq(heap, 1, Len(lots))
    /\ remaining_lots' = <<>>
    /\ plan' = <<>>
    /\ year' = 0
    /\ total_sold' = 0
    /\ total_revenue' = 0
    /\ total_tax' = 0
    /\ UNCHANGED <<lots, call>>

\* The request handler that made the call finishes: the result leaves the
\* process and the next request finds the stored ledger as it is
HandlerReturns ==
    /\ pc = "returned"
    /\ pc' = "idle"
    /\ call' = [op |-> "none"]
    /\ ret' = NoReturn
    /\ UNCHANGED <<heap, lots, locals>>

Call_plan_multi_year_sales == PlanBegin("plan_multi_year_sales")

Call_plan_full_extraction == PlanBegin("plan_full_extraction")

Next ==
    \/ Call_calculate_fifo_cost_basis
    \/ Call_calculate_gain
    \/ Call_max_sellable_for_gain
    \/ Call_shares_for_target_revenue
    \/ Call_plan_multi_year_sales
    \/ Call_plan_full_extraction
    \/ plan_multi_year_sales_year
    \/ plan_full_extraction_year
    \/ PlanReturn
    \/ HandlerReturns

Spec == Init /\ [][Next]_vars

\* ------------------------------------------------------------ the tax rules
\* The process before any request, no lot stored
InitEmpty ==
    /\ heap = <<>>
    /\ lots = <<>>
    /\ pc = "idle"
    /\ call = [op |-> "none"]
    /\ ret = NoReturn
    /\ remaining_lots = <<>>
    /\ plan = <<>>
    /\ year = 0
    /\ total_sold = 0
    /\ total_revenue = 0
    /\ total_tax = 0

Call_calculate_tax ==
    /\ pc = "idle"
    /\ \E gain \in TaxGains, yearly_limit \in YearlyLimits :
         /\ call' = [op |-> "calculate_tax", gain |-> gain,
                     yearly_limit |-> yearly_limit]
         /\ ret' = calculate_tax(gain, yearly_limit)
    /\ pc' = "returned"
    /\ UNCHANGED <<heap, lots, locals>>

Call_calculate_tax_with_buffer ==
    /\ pc = "idle"
    /\ \E gain \in TaxGains, buffer_available \in Buffers :
         /\ call' = [op |-> "calculate_tax_with_buffer", gain |-> gain,
                     buffer_available |-> buffer_available]
         /\ ret' = calculate_tax_with_buffer(gain, buffer_available)
    /\ pc' = "returned"
    /\ UNCHANGED <<heap, lots, locals>>

\* ------------------------------------------------------ the stored ledger
\* float(request.form.get(..)) over the field values: a number, or None for
\* text that float() rejects with ValueError
FormValues(numbers) == {None} \cup {Num(x) : x \in numbers}

\* A sort step that puts the lot before the lots of its own date
InsertBeforeSameDate(sorted, lot) ==
    LET k == Cardinality({i \in 1..Len(sorted) : sorted[i].date < lot.date})
    IN SubSeq(sorted, 1, k) \o <<lot>> \o SubSeq(sorted, k + 1, Len(sorted))

\* One step of the stable sort: the lot goes behind every lot of the sorted
\* list whose date is not later than its own
InsertByDate(sorted, lot) ==
    LET k == Cardinality({i \in 1..Len(sorted) : sorted[i].date <= lot.date})
    IN SubSeq(sorted, 1, k) \o <<lot>> \o SubSeq(sorted, k + 1, Len(sorted))

\* lots.sort(key=lambda x: x['date']): a stable sort
RECURSIVE StableSort(_)
StableSort(l) ==
    IF l = <<>> THEN <<>>
    ELSE InsertByDate(StableSort(SubSeq(l, 1, Len(l) - 1)), l[Len(l)])

\* The fields of the request make add_lot store a lot
Accepted(c) ==
    IF c.amount_only
    THEN ~IsNone(c.amount) /\ Val(c.amount) > 0
    ELSE /\ ~IsNone(c.quantity)
         /\ ~IsNone(c.price)
         /\ Val(c.quantity) > 0
         /\ Val(c.price) > 0

\* The lot add_lot appends for an accepted request
NewLot(c) ==
    LET quantity == IF c.amount_only THEN 1 ELSE Val(c.quantity)
        price == IF c.amount_only THEN Val(c.amount) ELSE Val(c.price)
    IN [date |-> c.date, quantity |-> quantity, price |-> price,
        remaining |-> quantity]

\* The handler add_lot, from the request to the redirect: the ledger is read
\* from the asset, extended, sorted and stored again
add_lot ==
    /\ pc = "idle"
    /\ Len(lots) < MaxLots
    /\ \E amount_only \in BOOLEAN, date \in LotDates,
          amount \in FormValues(FormAmounts),
          quantity \in FormValues(FormQuantities),
          price \in FormValues(FormPrices) :
         LET c == [op |-> "add_lot", amount_only |-> amount_only,
                   date |-> date, amount |-> amount, quantity |-> quantity,
                   price |-> price]
             stored == StableSort(Append(Ledger, NewLot(c)))
         IN \* only the fields the mode reads are part of the request
            /\ IF amount_only
               THEN IsNone(quantity) /\ IsNone(price)
               ELSE IsNone(amount)
            /\ call' = c
            /\ IF Accepted(c)
               THEN /\ heap' = stored
                    /\ lots' = [i \in 1..Len(stored) |-> i]
                    /\ ret' = [flash |-> "success"]
               ELSE /\ UNCHANGED <<heap, lots>>
                    /\ ret' = [flash |-> "error"]
    /\ pc' = "returned"
    /\ UNCHANGED locals

NextLedger ==
    \/ add_lot
    \/ HandlerReturns

SpecLedger == InitEmpty /\ [][NextLedger]_vars

NextTax ==
    \/ Call_calculate_tax
    \/ Call_calculate_tax_with_buffer
    \/ HandlerReturns

SpecTax == InitEmpty /\ [][NextTax]_vars

\* ====================================================================
\* Properties
\* ====================================================================

\* The exact FIFO gain of selling the whole quantity q from ledger l
ExactGain(l, q, sale_price) == Val(calculate_gain(l, q, 1, sale_price))

Returned(op) == pc = "returned" /\ call.op = op

\* The ledger argument of the call is in ascending date order
ArgInDateOrder ==
    \A i, j \in 1..Len(call.lots) : i < j => call.lots[i].date <= call.lots[j].date

\* The indices of the lots of l from i on that still hold units, in order
RECURSIVE HeldFrom(_, _)
HeldFrom(l, i) ==
    IF i > Len(l) THEN <<>>
    ELSE IF Available(l[i]) > 0 THEN <<i>> \o HeldFrom(l, i + 1)
    ELSE HeldFrom(l, i + 1)

RECURSIVE SumUse(_, _)
SumUse(used, i) ==
    IF i > Len(used) THEN 0 ELSE used[i].quantity + SumUse(used, i + 1)

RECURSIVE SumUseCost(_, _)
SumUseCost(used, i) ==
    IF i > Len(used) THEN 0
    ELSE used[i].quantity * used[i].price + SumUseCost(used, i + 1)

\* C1: max_sellable_for_gain returns the largest whole q in
\* [0, total available] whose exact FIFO gain is at most target_gain, and
\* the gain of q + 1 exceeds the target whenever q is below the total.
C1_OptimizerReturnsLargest ==
    Returned("max_sellable_for_gain") =>
        LET total == get_total_available(call.lots)
            G(q) == ExactGain(call.lots, q, call.sale_price)
        IN /\ ret.units \in 0..total
           /\ G(ret.units) <= call.target_gain
           /\ \A q \in 0..total : G(q) <= call.target_gain => q <= ret.units
           /\ ret.units < total => G(ret.units + 1) > call.target_gain

\* C2: the gain max_sellable_for_gain returns is the exact FIFO gain of
\* selling exactly the returned whole number of units (0 for 0 units).
C2_ReportedGainIsExact ==
    Returned("max_sellable_for_gain") =>
        /\ ret.units >= 0
        /\ ret.gain = ret.den * ExactGain(call.lots, ret.units, call.sale_price)
        /\ ret.units = 0 => ret.gain = 0

\* C3: on a date-ordered ledger a successful resolution is the greedy
\* oldest-first allocation: the breakdown lists lots that hold units, in
\* ledger order, each with 0 < use <= its remaining; every lot before the
\* last one drawn from is used in full; the uses sum to the quantity; the
\* cost is the sum of use * price.
C3_GreedyOldestFirst ==
    (Returned("calculate_fifo_cost_basis") /\ ArgInDateOrder
        /\ ~IsNone(ret.cost)) =>
        LET l == call.lots
            used == ret.lots_used
            held == HeldFrom(l, 1)
        IN /\ Len(used) <= Len(held)
           /\ \A k \in 1..Len(used) :
                /\ used[k].date = l[held[k]].date
                /\ used[k].price = l[held[k]].price
                /\ 0 < used[k].quantity
                /\ used[k].quantity <= Available(l[held[k]])
                /\ k < Len(used) => used[k].quantity = Available(l[held[k]])
           /\ SumUse(used, 1) = call.quantity
           /\ Val(ret.cost) = SumUseCost(used, 1)

\* A resolution that took all of one lot and part of a later one, passing
\* over a lot that holds nothing
C3_Witness ==
    /\ Returned("calculate_fifo_cost_basis") /\ ArgInDateOrder
    /\ ~IsNone(ret.cost)
    /\ Len(ret.lots_used) = 2
    /\ Len(call.lots) = 3
    /\ \E i \in 1..2 : Available(call.lots[i]) = 0
    /\ ret.lots_used[2].quantity < Available(call.lots[3])

\* The argument list sorted ascending by date
SortByDate(l) ==
    LET o == CHOOSE f \in [1..Len(l) -> 1..Len(l)] :
                 /\ \A i, j \in 1..Len(l) : i < j => f[i] # f[j]
                 /\ \A i, j \in 1..Len(l) : i < j => l[f[i]].date <= l[f[j]].date
    IN [i \in 1..Len(l) |-> l[o[i]]]

\* C4: whatever the order of the lots in the list passed in, the resolver
\* returns the cost and the breakdown it returns for the date-sorted list.
C4_InputOrderIrrelevant ==
    Returned("calculate_fifo_cost_basis") =>
        ret = calculate_fifo_cost_basis(SortByDate(call.lots), call.quantity, 1)

\* C5: the resolver succeeds exactly when the quantity is at most the sum
\* of remaining (quantity 0: cost 0, empty breakdown); a failure carries no
\* cost and an empty breakdown, and calculate_gain then returns None.
C5_InsufficientInventoryFails ==
    /\ Returned("calculate_fifo_cost_basis") =>
         /\ ~IsNone(ret.cost) <=> call.quantity <= get_total_available(call.lots)
         /\ IsNone(ret.cost) => ret.lots_used = <<>>
         /\ call.quantity = 0 => ret = [cost |-> Num(0), lots_used |-> <<>>]
    /\ Returned("calculate_gain") =>
         IsNone(ret.value) <=> call.quantity > get_total_available(call.lots)

\* A request for one unit more than a non-empty ledger holds
C5_Witness ==
    /\ Returned("calculate_fifo_cost_basis")
    /\ get_total_available(call.lots) > 0
    /\ call.quantity = get_total_available(call.lots) + 1
    /\ ret = [cost |-> None, lots_used |-> <<>>]

\* The entries a planner has appended so far, or returned
Entries(op) ==
    IF call.op # op THEN <<>>
    ELSE IF pc = "loop" THEN plan
    ELSE IF "plan" \in DOMAIN ret THEN ret.plan
    ELSE <<>>

\* C6: in a steady-state plan every year's gain is at most the yearly
\* limit, so taxable, tax and cumulative_tax are 0 in every entry.
C6_SteadyStateNeverTaxed ==
    \A k \in 1..Len(Entries("plan_multi_year_sales")) :
        LET e == Entries("plan_multi_year_sales")[k]
        IN /\ e.gain <= BASE_LIMIT
           /\ e.taxable = 0
           /\ e.tax = 0
           /\ e.cumulative_tax = 0

\* C7: no step of any engine call changes the date, quantity, price or
\* remaining (present or absent) of a lot of the caller's ledger.
C7_CallerLedgerUntouched == [][Ledger' = Ledger]_vars

\* A planner has drawn units from its working copy
C7_Witness ==
    /\ pc = "loop"
    /\ \E i \in 1..Len(lots) :
         /\ "remaining" \notin DOMAIN heap[lots[i]]
         /\ heap[remaining_lots[i]].remaining < heap[lots[i]].quantity
    /\ \E i \in 1..Len(lots) :
         /\ "remaining" \in DOMAIN heap[lots[i]]
         /\ heap[remaining_lots[i]].remaining < heap[lots[i]].remaining

\* A step of the year loop of either planner
YearStep == pc = "loop" /\ year' = year + 1

\* C8: a year that sells q > 0 units lowers the sum of remaining over the
\* working ledger by exactly q, and every entry a planner appends has
\* remaining + cumulative_sold equal to the total of the initial ledger.
C8_UnitsConserved ==
    [][YearStep =>
        LET e == plan'[Len(plan')]
            before == get_total_available(Deref(heap, remaining_lots))
            after == get_total_available(Deref(heap', remaining_lots'))
        IN /\ Len(plan') = Len(plan) + 1
           /\ e.units > 0 => after = before - e.units
           /\ e.remaining + e.cumulative_sold = get_total_available(call.lots)
      ]_vars

\* A planner has sold in two different years and units are still held
C8_Witness ==
    /\ pc = "loop"
    /\ Len(plan) = 2
    /\ plan[1].units > 0
    /\ plan[2].units > 0
    /\ plan[2].remaining > 0

\* C9: for a fixed ledger and sale price the gain does not decrease as the
\* quantity grows, up to the total available.
C9_GainMonotone ==
    Returned("calculate_gain") /\ ~IsNone(ret.value) =>
        \A q1 \in 0..(call.quantity - 1) :
            ExactGain(call.lots, q1, call.sale_price) <= Val(ret.value)

\* No lot that still holds units was bought above the sale price
NoLotAbove(l, sale_price) ==
    \A i \in 1..Len(l) : Available(l[i]) > 0 => l[i].price <= sale_price

\* C9 (amended): when no lot that still holds units has a price above the
\* sale price, the gain does not decrease as the quantity grows.
C9_GainMonotoneBelowSalePrice ==
    (Returned("calculate_gain") /\ ~IsNone(ret.value)
        /\ NoLotAbove(call.lots, call.sale_price)) =>
        \A q1 \in 0..(call.quantity - 1) :
            ExactGain(call.lots, q1, call.sale_price) <= Val(ret.value)

\* A gain over two lots, none above the sale price
C9_Witness ==
    /\ Returned("calculate_gain")
    /\ NoLotAbove(call.lots, call.sale_price)
    /\ Len(HeldFrom(call.lots, 1)) >= 2
    /\ call.quantity = get_total_available(call.lots)
    /\ ~IsNone(ret.value)
    /\ Val(ret.value) > 0

\* C10: the last year of plan_full_extraction sells every unit available
\* at its start, whatever the gain and tax, so the last entry of the plan
\* has remaining = 0 and cumulative_sold equal to the initial total.
C10_FullExtractionEmptiesHolding ==
    /\ (call.op = "plan_full_extraction" /\ pc = "loop"
          /\ Len(plan) = call.years) =>
         plan[call.years].units
            = IF call.years = 1 THEN get_total_available(call.lots)
              ELSE plan[call.years - 1].remaining
    /\ Returned("plan_full_extraction") =>
         /\ Len(ret.plan) = call.years
         /\ ret.plan[call.years].remaining = 0
         /\ ret.plan[call.years].cumulative_sold
              = get_total_available(call.lots)

\* A plan of several years whose last year sold units at a taxed gain
C10_Witness ==
    /\ Returned("plan_full_extraction")
    /\ call.years >= 2
    /\ ret.plan[call.years - 1].remaining > 0
    /\ ret.plan[call.years].units = ret.plan[call.years - 1].remaining
    /\ ret.plan[call.years].taxable > 0
    /\ ret.plan[call.years].remaining = 0

\* The cumulative totals of the last entry appended, 0 before the first
LastTotals ==
    IF plan = <<>>
    THEN [cumulative_sold |-> 0, cumulative_revenue |-> 0, cumulative_tax |-> 0]
    ELSE plan[Len(plan)]

\* C11: in both planners a year that starts with no units available in the
\* working ledger appends an entry with units, revenue, gain, tax and
\* remaining 0 and the cumulative totals of the preceding entry, and leaves
\* the ledger exhausted; the loop goes on, so the plan returned has an entry
\* for each of the N years.
C11_ExhaustionAbsorbing ==
    [][/\ (YearStep /\ get_total_available(Deref(heap, remaining_lots)) = 0) =>
            LET e == plan'[Len(plan')]
            IN /\ Len(plan') = Len(plan) + 1
               /\ e.year = year + 1
               /\ e.units = 0
               /\ e.revenue = 0
               /\ e.gain = 0
               /\ e.tax = 0
               /\ e.remaining = 0
               /\ e.cumulative_sold = LastTotals.cumulative_sold
               /\ e.cumulative_revenue = LastTotals.cumulative_revenue
               /\ e.cumulative_tax = LastTotals.cumulative_tax
               /\ get_total_available(Deref(heap', remaining_lots')) = 0
       /\ (pc = "loop" /\ pc' = "returned") =>
            /\ Len(ret'.plan) = call.years
            /\ \A k \in 1..call.years : ret'.plan[k].year = k
      ]_vars

\* A plan that sold everything in its first year and went on for two more
C11_Witness ==
    /\ pc = "loop"
    /\ Len(plan) = 3
    /\ plan[1].units > 0
    /\ plan[1].remaining = 0
    /\ plan[2].units = 0
    /\ plan[3].units = 0
    /\ plan[3].cumulative_sold = plan[1].cumulative_sold
    /\ plan[3].cumulative_revenue > 0

C13_BufferedRuleIsCliff ==
    Returned("calculate_tax_with_buffer") =>
        LET excess == call.gain - BASE_LIMIT
        IN /\ excess <= call.buffer_available =>
                /\ ret.taxable = 0
                /\ ret.tax = 0
                /\ excess > 0 => ret.buffer_used = excess
           /\ excess > call.buffer_available =>
                /\ ret.taxable = excess
                /\ ret.tax = TAX_RATE * excess

\* An excess just beyond a partly used buffer, taxed in full
C13_Witness ==
    /\ Returned("calculate_tax_with_buffer")
    /\ call.buffer_available = 500
    /\ call.gain = 10600
    /\ ret.taxable = 600
    /\ ret.tax = 6000

\* C14: calculate_tax returns (0, 0) when gain <= limit, the boundary
\* gain = limit = 10000 included, and otherwise taxable = gain - limit and
\* tax = 10% of taxable (gain 10001, limit 10000: taxable 1, tax 0.1);
\* taxable and tax are never negative.
C14_SimpleTaxRule ==
    Returned("calculate_tax") =>
        /\ call.gain <= call.yearly_limit => ret = [taxable |-> 0, tax |-> 0]
        /\ call.gain > call.yearly_limit =>
             /\ ret.taxable = call.gain - call.yearly_limit
             /\ ret.tax = ret.taxable * 10
        /\ (call.gain = 10000 /\ call.yearly_limit = 10000) =>
             ret = [taxable |-> 0, tax |-> 0]
        /\ (call.gain = 10001 /\ call.yearly_limit = 10000) =>
             ret = [taxable |-> 1, tax |-> 10]
        /\ ret.taxable >= 0
        /\ ret.tax >= 0

\* A gain taxed against a yearly limit other than the default
C14_Witness ==
    /\ Returned("calculate_tax")
    /\ call.yearly_limit = 5000
    /\ call.gain = 10001
    /\ ret = [taxable |-> 5001, tax |-> 50010]

\* C18: for 0 <= buffer_available <= 1000 the buffer_remaining returned is
\* between 0 and buffer_available; when the excess exceeds the available
\* buffer it is 0 if the tax is at least 1000 and otherwise the available
\* buffer less the excess, not below 0.
C18_BufferNeverGrows ==
    (Returned("calculate_tax_with_buffer")
        /\ 0 <= call.buffer_available
        /\ call.buffer_available <= BUFFER_ZONE) =>
        LET excess == call.gain - BASE_LIMIT
        IN /\ 0 <= ret.buffer_remaining
           /\ ret.buffer_remaining <= call.buffer_available
           /\ excess > call.buffer_available =>
                ret.buffer_remaining
                  = IF ret.tax >= BUFFER_ZONE * 100 THEN 0
                    ELSE Max(0, call.buffer_available - excess)

\* C15: calculate_fifo_cost_basis, calculate_gain, max_sellable_for_gain and
\* shares_for_target_revenue called with a quantity <= 0 or a sale price <= 0
\* return an error outcome, never a numeric cost or gain.
C15_InvalidInputRejected ==
    /\ (Returned("calculate_fifo_cost_basis") /\ call.quantity <= 0) =>
         IsNone(ret.cost)
    /\ (Returned("calculate_gain")
          /\ (call.quantity <= 0 \/ call.sale_price <= 0)) =>
         IsNone(ret.value)
    /\ (Returned("max_sellable_for_gain") /\ call.sale_price <= 0) =>
         "gain" \notin DOMAIN ret
    /\ (Returned("shares_for_target_revenue") /\ call.sale_price <= 0) =>
         "gain" \notin DOMAIN ret

\* C16: every year of either planner leaves every lot of the working ledger
\* with 0 <= remaining <= quantity, raises no lot's remaining, and keeps
\* every lot of the initial ledger in place, also one whose remaining has
\* reached 0.
C16_LotInvariantUnderPlanning ==
    [][YearStep =>
        LET before == Deref(heap, remaining_lots)
            after == Deref(heap', remaining_lots')
        IN /\ Len(after) = Len(before)
           /\ Len(after) = Len(call.lots)
           /\ \A i \in 1..Len(after) :
                /\ "remaining" \in DOMAIN after[i]
                /\ 0 <= after[i].remaining
                /\ after[i].remaining <= after[i].quantity
                /\ after[i].remaining <= before[i].remaining
                /\ after[i].date = call.lots[i].date
                /\ after[i].quantity = call.lots[i].quantity
                /\ after[i].price = call.lots[i].price
      ]_vars

\* After two years of sales the working ledger still lists a lot that is
\* used up, next to one that is partly drawn
C16_Witness ==
    /\ pc = "loop"
    /\ Len(plan) >= 2
    /\ plan[1].units > 0
    /\ plan[2].units > 0
    /\ \E i, j \in 1..Len(remaining_lots) :
         /\ i < j
         /\ heap[remaining_lots[i]].remaining = 0
         /\ heap[remaining_lots[j]].remaining > 0
         /\ heap[remaining_lots[j]].remaining < heap[remaining_lots[j]].quantity

\* The lots of l are in ascending date order
InDateOrder(l) == \A i, j \in 1..Len(l) : i < j => l[i].date <= l[j].date

\* l without its k-th element
Without(l, k) == SubSeq(l, 1, k - 1) \o SubSeq(l, k + 1, Len(l))

\* C17: starting from an empty ledger the stored ledger is always sorted
\* ascending by date; a successful add_lot puts the new lot behind every
\* stored lot of the same or an earlier date and before every later one,
\* keeping the stored lots in their order, so lots of equal dates are in
\* insertion order; a rejected add_lot leaves the stored ledger unchanged.
C17_StoredLedgerSortedStable ==
    [][/\ InDateOrder(Ledger')
       /\ (pc = "idle" /\ pc' = "returned" /\ Accepted(call')) =>
            \E k \in 1..Len(Ledger') :
                /\ Ledger'[k] = [date |-> call'.date,
                                 quantity |-> IF call'.amount_only THEN 1
                                              ELSE Val(call'.quantity),
                                 price |-> IF call'.amount_only
                                           THEN Val(call'.amount)
                                           ELSE Val(call'.price),
                                 remaining |-> IF call'.amount_only THEN 1
                                               ELSE Val(call'.quantity)]
                /\ Without(Ledger', k) = Ledger
                /\ \A i \in 1..(k - 1) : Ledger'[i].date <= call'.date
                /\ \A i \in (k + 1)..Len(Ledger') : Ledger'[i].date > call'.date
       /\ (pc = "idle" /\ pc' = "returned" /\ ~Accepted(call')) =>
            Ledger' = Ledger
      ]_vars

\* A lot stored between an older-inserted lot of its own date and a lot of a
\* later date
C17_Witness ==
    /\ Returned("add_lot")
    /\ ret.flash = "success"
    /\ Len(Ledger) = 3
    /\ Ledger[1].date = call.date
    /\ Ledger[2].date = call.date
    /\ Ledger[3].date > call.date
    /\ ~call.amount_only
    /\ Ledger[2].quantity = Val(call.quantity)
    /\ Ledger[1].quantity # Val(call.quantity)

====
